---- MODULE Spec2Model ----
(***************************************************************************)
(* Portfolio Management Service (src/main.py).                             *)
(*                                                                         *)
(* The service keeps one JSON file, portfolios.json, holding a dict from   *)
(* user id to portfolio {userId, cash, positions, transactions}.  Every    *)
(* handler loads the whole file, works on the in-memory dict and, when it  *)
(* mutates, writes the whole dict back.                                    *)
(*                                                                         *)
(* Numbers: the code uses Python floats.  Quantities, prices and cash are  *)
(* modelled as integers and avgCostBasis, the one value the ledger divides *)
(* for, as an exact fraction [num, den] in lowest terms; float rounding is *)
(* not modelled.  A float division by zero raises ZeroDivisionError, which *)
(* the framework turns into a 500 response.                                *)
(*                                                                         *)
(* Time: addedAt and timestamp are readings of datetime.utcnow() that no   *)
(* handler reads back.  The clock counts the readings taken, so each       *)
(* reading is later than the one before it.                                *)
(*                                                                         *)
(* Prices: get_current_price asks yfinance for the last close of a ticker. *)
(* The feed answers, per ticker, with a close, with no data, or by         *)
(* raising.  The ledger never reads a price: orders carry their own.       *)
(***************************************************************************)
EXTENDS Integers, Sequences, FiniteSets, TLC

VARIABLES
    file,    \* portfolios.json: [exists, data], data a dict user id -> portfolio
    clock,   \* the wall clock: the number of datetime.utcnow() readings so far
    resp,    \* the response of the last request served alone
    pc,      \* per worker thread: "idle", "loaded" or "done"
    local,   \* per worker thread: the dict its handler loaded
    treq,    \* per worker thread: the request it is handling
    tresp,   \* per worker thread: the response it returned
    base,    \* file and clock as they were when the first worker began
    market,  \* the price feed as the last valuation found it, per ticker
    own      \* the file as the requests of the observed client alone leave it

vars == <<file, clock, resp, pc, local, treq, tresp, base, market, own>>

(***************************************************************************)
(* Bounds of the model and constants of the program.                       *)
(***************************************************************************)
MaxTxns == 3
\* readings of the clock up to which a save can fail
MaxReadings == 4
StartingCash == 100000

Tickers == {"AAPL", "MSFT"}

\* <<quantity, price>> of the orders clients send.  AddPositionRequest and
\* RemovePositionRequest declare both as plain floats, so any sign gets in.
ValidOrders == {<<1, 0>>, <<1, 50000>>, <<2, 50000>>}
InvalidOrders == {<<-1, 0>>, <<0, 0>>, <<1, -1>>}
Orders == ValidOrders \cup InvalidOrders

Requests(O) ==
    {[op |-> o, ticker |-> t, quantity |-> qp[1], price |-> qp[2]] :
        o \in {"buy", "sell"}, t \in Tickers, qp \in O}

AllRequests == Requests(Orders)
ValidRequests == Requests(ValidOrders)
InvalidRequests == Requests(InvalidOrders)

NoRequest == [op |-> "none", ticker |-> "", quantity |-> 0, price |-> 0]

\* what stock.history(period="1d") does for a ticker: it returns rows whose
\* last Close is the price, returns an empty frame, or raises
Closes == {60000}
NoData == [kind |-> "empty", close |-> 0]
FeedError == [kind |-> "error", close |-> 0]
Quotes ==
    {NoData, FeedError} \cup {[kind |-> "data", close |-> p] : p \in Closes}

Markets == [Tickers -> Quotes]

\* the feed has no data for any ticker
Silent == [t \in Tickers |-> NoData]

(***************************************************************************)
(* Exact fractions for the float avgCostBasis.                             *)
(***************************************************************************)
Abs(x) == IF x < 0 THEN -x ELSE x

RECURSIVE GCD(_, _)
GCD(a, b) == IF b = 0 THEN a ELSE GCD(b, a % b)

\* n / d for d # 0, in lowest terms with a positive denominator
Frac(n, d) ==
    LET g == GCD(Abs(n), Abs(d))
        s == IF d < 0 THEN -1 ELSE 1
    IN  [num |-> (s * n) \div g, den |-> (s * d) \div g]

\* float arithmetic on fractions; k is an integer
FracAdd(x, y) == Frac(x.num * y.den + y.num * x.den, x.den * y.den)
FracSub(x, y) == Frac(x.num * y.den - y.num * x.den, x.den * y.den)
FracTimes(k, x) == Frac(k * x.num, x.den)
FracDiv(x, y) == Frac(x.num * y.den, x.den * y.num)
FracPositive(x) == x.num > 0

(***************************************************************************)
(* The file store.                                                         *)
(***************************************************************************)
EmptyDict == [u \in {} |-> 0]

NoFile == [exists |-> FALSE, torn |-> FALSE, data |-> EmptyDict]

\* open(PORTFOLIOS_FILE, 'w') emptied the file and json.dump did not
\* complete: what the file holds is not a JSON document
TornFile == [exists |-> TRUE, torn |-> TRUE, data |-> EmptyDict]

\* json.load raises on a file that is not a JSON document
JSONDecodeError(f) == f.exists /\ f.torn

load_portfolios(f) == IF f.exists THEN f.data ELSE EmptyDict

save_portfolios(f, portfolios) ==
    [exists |-> TRUE, torn |-> FALSE, data |-> portfolios]

DictPut(d, k, v) == [x \in (DOMAIN d) \cup {k} |-> IF x = k THEN v ELSE d[x]]

verify_token == [user_id |-> "user_1"]

(***************************************************************************)
(* Responses.                                                              *)
(***************************************************************************)
\* a response with no document of the ledger in it
NoBody == [none |-> TRUE]

NoResponse ==
    [status |-> 0, detail |-> "", transactionId |-> "", body |-> NoBody]

HTTPException(status, detail) ==
    [status |-> status, detail |-> detail, transactionId |-> "",
     body |-> NoBody]

\* an exception no handler catches: the framework answers 500
ServerError == HTTPException(500, "Internal Server Error")

Success(message, transaction_id) ==
    [status |-> 200, detail |-> message, transactionId |-> transaction_id,
     body |-> NoBody]

\* a handler returned a document: the framework answers 200 with it
Ok(body) ==
    [status |-> 200, detail |-> "", transactionId |-> "", body |-> body]

(***************************************************************************)
(* Helpers of the handlers.                                                *)
(***************************************************************************)
\* for pos in portfolio['positions']: if pos['ticker'] == ticker: ... break
\* the index of the first position with the ticker, 0 when there is none
FindPosition(positions, ticker) ==
    LET hits == {i \in 1..Len(positions) : positions[i].ticker = ticker}
    IN  IF hits = {} THEN 0 ELSE CHOOSE i \in hits : \A j \in hits : i <= j

\* list.remove(x): drops the first element equal to x
ListRemove(s, x) ==
    LET hits == {i \in 1..Len(s) : s[i] = x}
        k == CHOOSE i \in hits : \A j \in hits : i <= j
    IN  IF hits = {} THEN s
        ELSE [i \in 1..(Len(s) - 1) |-> IF i < k THEN s[i] ELSE s[i + 1]]

NewPortfolio(user_id) ==
    [userId |-> user_id, cash |-> StartingCash,
     positions |-> <<>>, transactions |-> <<>>]

\* a slip in the funds check: the comparison the wrong way round
InsufficientFunds_Reversed(cash, total_cost) == total_cost < cash

\* if portfolio['cash'] < total_cost: raise
InsufficientFunds(cash, total_cost) == cash < total_cost

\* if position['quantity'] < request.quantity: raise
InsufficientShares(held, quantity) == held < quantity

\* a slip in the id: the count before the append, without the + 1
NextTransactionId_OffByOne(transactions) ==
    "txn_" \o ToString(Len(transactions))

\* f"txn_{len(portfolio['transactions']) + 1}"
NextTransactionId(transactions) == "txn_" \o ToString(Len(transactions) + 1)

\* a slip in the log: every order is logged as one share
NewTransaction_UnitQuantity(transactions, request, type, now) ==
    [id |-> NextTransactionId(transactions), ticker |-> request.ticker,
     type |-> type, quantity |-> 1, price |-> request.price,
     timestamp |-> now, fees |-> 0]

\* a slip in the log: the total of the order is logged as its price
NewTransaction_TotalAsPrice(transactions, request, type, now) ==
    [id |-> NextTransactionId(transactions), ticker |-> request.ticker,
     type |-> type, quantity |-> request.quantity,
     price |-> request.quantity * request.price,
     timestamp |-> now, fees |-> 0]

NewTransaction(transactions, request, type, now) ==
    [id |-> NextTransactionId(transactions), ticker |-> request.ticker,
     type |-> type, quantity |-> request.quantity, price |-> request.price,
     timestamp |-> now, fees |-> 0]

\* a slip in the cost basis: the plain mean of the old basis and the price
WeightedAverage_PlainMean(existing, request) ==
    LET avg == existing.avgCostBasis
    IN  Frac(avg.num + request.price * avg.den, 2 * avg.den)

\* total_cost_basis / total_quantity, on the fraction avgCostBasis
WeightedAverage(existing, request) ==
    LET total_quantity == existing.quantity + request.quantity
        avg == existing.avgCostBasis
    IN  Frac(existing.quantity * avg.num + request.quantity * request.price * avg.den,
             avg.den * total_quantity)

\* the division of the cost-basis update raises ZeroDivisionError
BuyDividesByZero(positions, request) ==
    LET i == FindPosition(positions, request.ticker)
    IN  i # 0 /\ positions[i].quantity + request.quantity = 0

\* the buy creates a position, and reads the clock for its addedAt
BuyAddsPosition(positions, request) == FindPosition(positions, request.ticker) = 0

\* a slip in the buy: a new row for every purchase
BuyPositions_AlwaysAppend(positions, request, now) ==
    Append(positions,
           [ticker |-> request.ticker, quantity |-> request.quantity,
            avgCostBasis |-> Frac(request.price, 1), addedAt |-> now])

\* "Find existing position or create new", for total_quantity # 0
BuyPositions(positions, request, now) ==
    LET i == FindPosition(positions, request.ticker)
    IN  IF i # 0
        THEN [positions EXCEPT ![i] =
                 [@ EXCEPT !.avgCostBasis = WeightedAverage(positions[i], request),
                           !.quantity = positions[i].quantity + request.quantity]]
        ELSE Append(positions,
                    [ticker |-> request.ticker, quantity |-> request.quantity,
                     avgCostBasis |-> Frac(request.price, 1), addedAt |-> now])

\* a slip in the sell: the remaining shares are re-based on the sell price
SellPositions_Rebased(positions, i, request) ==
    LET updated == [positions EXCEPT
                        ![i].quantity = @ - request.quantity,
                        ![i].avgCostBasis = Frac(request.price, 1)]
    IN  IF updated[i].quantity = 0 THEN ListRemove(updated, updated[i])
        ELSE updated

\* a slip in the sell: the shares sold stay in the position
SellPositions_Keeps(positions, i, request) == positions

\* "Update or remove position", for a position found at index i
SellPositions(positions, i, request) ==
    LET updated == [positions EXCEPT ![i].quantity = @ - request.quantity]
    IN  IF updated[i].quantity = 0 THEN ListRemove(updated, updated[i])
        ELSE updated

(***************************************************************************)
(* Valuation.  calculate_portfolio_metrics writes the derived fields into  *)
(* the dict it is given and returns it; m is what the feed answers.        *)
(***************************************************************************)
\* a slip in the price: the except branch does not fall back to 0.0
get_current_price_NoFallback(m, ticker) ==
    IF m[ticker].kind = "error" THEN -1 ELSE m[ticker].close

\* "if not data.empty: return float(data['Close'].iloc[-1])", 0.0 otherwise
\* and in the except branch
get_current_price(m, ticker) ==
    IF m[ticker].kind = "data" THEN m[ticker].close ELSE 0

\* one turn of "for position in portfolio['positions']"
ValuedPosition(position, m) ==
    LET current_price == get_current_price(m, position.ticker)
        market_value == position.quantity * current_price
        cost_basis == FracTimes(position.quantity, position.avgCostBasis)
        unrealized_pl == FracSub(Frac(market_value, 1), cost_basis)
    IN  [ticker |-> position.ticker, quantity |-> position.quantity,
         avgCostBasis |-> position.avgCostBasis, addedAt |-> position.addedAt,
         currentPrice |-> current_price,
         marketValue |-> market_value,
         unrealizedPL |-> unrealized_pl,
         unrealizedPLPercent |->
             IF FracPositive(cost_basis)
             THEN FracTimes(100, FracDiv(unrealized_pl, cost_basis))
             ELSE Frac(0, 1)]

\* total_market_value after the first n turns of the loop
RECURSIVE total_market_value(_, _, _)
total_market_value(portfolio, m, n) ==
    IF n = 0 THEN portfolio.cash
    ELSE total_market_value(portfolio, m, n - 1)
             + ValuedPosition(portfolio.positions[n], m).marketValue

\* a slip in the totals: the cost basis is summed without the cash
RECURSIVE total_cost_basis_NoCash(_, _)
total_cost_basis_NoCash(portfolio, n) ==
    IF n = 0 THEN Frac(0, 1)
    ELSE FracAdd(total_cost_basis_NoCash(portfolio, n - 1),
                 FracTimes(portfolio.positions[n].quantity,
                           portfolio.positions[n].avgCostBasis))

\* total_cost_basis after the first n turns of the loop
RECURSIVE total_cost_basis(_, _)
total_cost_basis(portfolio, n) ==
    IF n = 0 THEN Frac(portfolio.cash, 1)
    ELSE FracAdd(total_cost_basis(portfolio, n - 1),
                 FracTimes(portfolio.positions[n].quantity,
                           portfolio.positions[n].avgCostBasis))

calculate_portfolio_metrics(portfolio, m) ==
    LET n == Len(portfolio.positions)
        market_value == total_market_value(portfolio, m, n)
        cost_basis == total_cost_basis(portfolio, n)
        totalPL == FracSub(Frac(market_value, 1), cost_basis)
    IN  [userId |-> portfolio.userId, cash |-> portfolio.cash,
         positions |-> [i \in 1..n |-> ValuedPosition(portfolio.positions[i], m)],
         transactions |-> portfolio.transactions,
         totalValue |-> market_value,
         totalPL |-> totalPL,
         totalPLPercent |->
             IF FracPositive(cost_basis)
             THEN FracTimes(100, FracDiv(totalPL, cost_basis))
             ELSE Frac(0, 1)]

\* get_performance: "initial_value = 100000.0  # Starting cash"
initial_value == 100000

(***************************************************************************)
(* The handlers, as functions of the dict a handler loaded and of the      *)
(* clock: each yields the dict to save (save = FALSE when the handler      *)
(* never reaches save_portfolios), the response and the clock after its    *)
(* readings.                                                               *)
(***************************************************************************)
NoSave(portfolios, response, now) ==
    [save |-> FALSE, portfolios |-> portfolios, resp |-> response, now |-> now]

Save(portfolios, response, now) ==
    [save |-> TRUE, portfolios |-> portfolios, resp |-> response, now |-> now]

\* a slip in the read: the valued dict is written back
get_portfolio_body_SaveValued(portfolios, m, now) ==
    LET user_id == verify_token.user_id
        portfolio == IF user_id \in DOMAIN portfolios THEN portfolios[user_id]
                     ELSE NewPortfolio(user_id)
        valued == calculate_portfolio_metrics(portfolio, m)
    IN  Save(DictPut(portfolios, user_id, valued), Ok(valued), now)

\* the portfolio is saved when it is created, before it is valued; the
\* valued dict is returned and never saved
get_portfolio_body(portfolios, m, now) ==
    LET user_id == verify_token.user_id
    IN  IF user_id \notin DOMAIN portfolios
        THEN Save(DictPut(portfolios, user_id, NewPortfolio(user_id)),
                  Ok(calculate_portfolio_metrics(NewPortfolio(user_id), m)), now)
        ELSE NoSave(portfolios,
                    Ok(calculate_portfolio_metrics(portfolios[user_id], m)), now)

\* a slip in the history: it seeds the portfolio it does not find
get_transactions_body_Seeds(portfolios, now) ==
    LET user_id == verify_token.user_id
    IN  IF user_id \notin DOMAIN portfolios
        THEN Save(DictPut(portfolios, user_id, NewPortfolio(user_id)),
                  Ok([transactions |-> <<>>]), now)
        ELSE NoSave(portfolios,
                    Ok([transactions |-> portfolios[user_id].transactions]), now)

get_transactions_body(portfolios, now) ==
    LET user_id == verify_token.user_id
    IN  IF user_id \notin DOMAIN portfolios
        THEN NoSave(portfolios, Ok([transactions |-> <<>>]), now)
        ELSE NoSave(portfolios,
                    Ok([transactions |-> portfolios[user_id].transactions]), now)

\* a slip in the report: the cash is not taken off the invested value
get_performance_body_InvestedIsValue(portfolios, m, now) ==
    LET user_id == verify_token.user_id
    IN  IF user_id \notin DOMAIN portfolios
        THEN NoSave(portfolios, HTTPException(404, "Portfolio not found"), now)
        ELSE
        LET portfolio == calculate_portfolio_metrics(portfolios[user_id], m)
            current_value == portfolio.totalValue
        IN  NoSave(portfolios,
                   Ok([initialValue |-> initial_value,
                       currentValue |-> current_value,
                       totalReturn |->
                           FracTimes(100, Frac(current_value - initial_value,
                                               initial_value)),
                       totalPL |-> portfolio.totalPL,
                       totalPLPercent |-> portfolio.totalPLPercent,
                       cash |-> portfolio.cash,
                       investedValue |-> current_value]),
                   now)

get_performance_body(portfolios, m, now) ==
    LET user_id == verify_token.user_id
    IN  IF user_id \notin DOMAIN portfolios
        THEN NoSave(portfolios, HTTPException(404, "Portfolio not found"), now)
        ELSE
        LET portfolio == calculate_portfolio_metrics(portfolios[user_id], m)
            current_value == portfolio.totalValue
            total_return ==
                FracTimes(100, Frac(current_value - initial_value, initial_value))
        IN  NoSave(portfolios,
                   Ok([initialValue |-> initial_value,
                       currentValue |-> current_value,
                       totalReturn |-> total_return,
                       totalPL |-> portfolio.totalPL,
                       totalPLPercent |-> portfolio.totalPLPercent,
                       cash |-> portfolio.cash,
                       investedValue |-> current_value - portfolio.cash]),
                   now)

buy_stock_body(portfolios, request, now) ==
    LET user_id == verify_token.user_id
    IN  IF user_id \notin DOMAIN portfolios
        THEN NoSave(portfolios, HTTPException(404, "Portfolio not found"), now)
        ELSE
        LET portfolio == portfolios[user_id]
            total_cost == request.quantity * request.price
        IN  IF InsufficientFunds(portfolio.cash, total_cost)
            THEN NoSave(portfolios, HTTPException(400, "Insufficient funds"), now)
            ELSE IF BuyDividesByZero(portfolio.positions, request)
            THEN NoSave(portfolios, ServerError, now)
            ELSE
            LET stamp == IF BuyAddsPosition(portfolio.positions, request)
                         THEN now + 1 ELSE now
                updated ==
                    [portfolio EXCEPT
                        !.cash = @ - total_cost,
                        !.positions = BuyPositions(@, request, now),
                        !.transactions =
                            Append(@, NewTransaction(@, request, "buy", stamp))]
            IN  Save(DictPut(portfolios, user_id, updated),
                     Success("Stock purchased successfully",
                             NextTransactionId(portfolio.transactions)),
                     stamp + 1)

sell_stock_body(portfolios, request, now) ==
    LET user_id == verify_token.user_id
    IN  IF user_id \notin DOMAIN portfolios
        THEN NoSave(portfolios, HTTPException(404, "Portfolio not found"), now)
        ELSE
        LET portfolio == portfolios[user_id]
            i == FindPosition(portfolio.positions, request.ticker)
        IN  IF i = 0
            THEN NoSave(portfolios, HTTPException(404, "Position not found"), now)
            ELSE IF InsufficientShares(portfolio.positions[i].quantity,
                                       request.quantity)
            THEN NoSave(portfolios, HTTPException(400, "Insufficient shares"), now)
            ELSE
            LET proceeds == request.quantity * request.price
                updated ==
                    [portfolio EXCEPT
                        !.cash = @ + proceeds,
                        !.positions = SellPositions(@, i, request),
                        !.transactions =
                            Append(@, NewTransaction(@, request, "sell", now))]
            IN  Save(DictPut(portfolios, user_id, updated),
                     Success("Stock sold successfully",
                             NextTransactionId(portfolio.transactions)),
                     now + 1)

\* the handler of an order, on the dict it loaded
order_body(portfolios, request, now) ==
    IF request.op = "buy" THEN buy_stock_body(portfolios, request, now)
    ELSE sell_stock_body(portfolios, request, now)

\* the file after a handler that ended with outcome out
FileAfter(f, out) == IF out.save THEN save_portfolios(f, out.portfolios) ELSE f

\* a whole handler, run with no other request in between
Whole(f, out) == [file |-> FileAfter(f, out), resp |-> out.resp, now |-> out.now]

\* load_portfolios raised: the framework answers 500
Crash(f, now) == [file |-> f, resp |-> ServerError, now |-> now]

get_portfolio(f, m, now) ==
    IF JSONDecodeError(f) THEN Crash(f, now)
    ELSE Whole(f, get_portfolio_body(load_portfolios(f), m, now))

get_transactions(f, now) ==
    IF JSONDecodeError(f) THEN Crash(f, now)
    ELSE Whole(f, get_transactions_body(load_portfolios(f), now))

get_performance(f, m, now) ==
    IF JSONDecodeError(f) THEN Crash(f, now)
    ELSE Whole(f, get_performance_body(load_portfolios(f), m, now))

buy_stock(f, request, now) ==
    IF JSONDecodeError(f) THEN Crash(f, now)
    ELSE Whole(f, buy_stock_body(load_portfolios(f), request, now))

\* a slip in the sell: the proceeds are credited and saved before the
\* shares check raises
sell_stock_CreditFirst(f, request, now) ==
    LET out == sell_stock_body(load_portfolios(f), request, now)
        user_id == verify_token.user_id
        portfolio == load_portfolios(f)[user_id]
    IN  IF out.resp = HTTPException(400, "Insufficient shares")
        THEN [file |-> save_portfolios(f,
                          DictPut(load_portfolios(f), user_id,
                                  [portfolio EXCEPT !.cash =
                                      @ + request.quantity * request.price])),
              resp |-> out.resp, now |-> out.now]
        ELSE Whole(f, out)

sell_stock(f, request, now) ==
    IF JSONDecodeError(f) THEN Crash(f, now)
    ELSE Whole(f, sell_stock_body(load_portfolios(f), request, now))

\* the outcome of order r served alone on file f
Served(f, r, now) ==
    IF r.op = "buy" THEN buy_stock(f, r, now) ELSE sell_stock(f, r, now)

\* save_portfolios raises: at open(), and the file is as it was, or in
\* json.dump, after open() emptied the file.  No handler catches it.
FailedSave(f, out, at) ==
    [file |-> IF at = "dump" THEN TornFile ELSE f,
     resp |-> ServerError, now |-> out.now]

\* a handler whose save, when it reaches one, fails
WholeFailing(f, out, at) ==
    IF out.save THEN FailedSave(f, out, at) ELSE Whole(f, out)

(***************************************************************************)
(* State.                                                                  *)
(***************************************************************************)
Threads == {1, 2}

\* the stored portfolio of the (one) user verify_token names
HasPortfolio(f) == f.exists /\ verify_token.user_id \in DOMAIN f.data
Stored(f) == f.data[verify_token.user_id]
TxnCount(f) == IF HasPortfolio(f) THEN Len(Stored(f).transactions) ELSE 0

Quiet == \A t \in Threads : pc[t] = "idle"

Init ==
    /\ file = NoFile
    /\ clock = 0
    /\ resp = NoResponse
    /\ pc = [t \in Threads |-> "idle"]
    /\ local = [t \in Threads |-> EmptyDict]
    /\ treq = [t \in Threads |-> NoRequest]
    /\ tresp = [t \in Threads |-> NoResponse]
    /\ base = [file |-> NoFile, clock |-> 0]
    /\ market = Silent
    /\ own = NoFile

threadVars == <<pc, local, treq, tresp, base>>

(***************************************************************************)
(* Sequential service: one request at a time, each handler runs whole.     *)
(***************************************************************************)
Replied(result) ==
    /\ Quiet
    /\ TxnCount(result.file) <= MaxTxns
    /\ file' = result.file
    /\ resp' = result.resp
    /\ clock' = result.now
    /\ UNCHANGED threadVars

Handled(result) == Replied(result) /\ UNCHANGED <<market, own>>

\* a handler that asked the feed and found it as m
Valued(result, m) == Replied(result) /\ market' = m /\ UNCHANGED own

GetPortfolio(M) == \E m \in M : Valued(get_portfolio(file, m, clock), m)

GetPerformance(M) == \E m \in M : Valued(get_performance(file, m, clock), m)

GetTransactions == Handled(get_transactions(file, clock))

BuyStep(r) == r.op = "buy" /\ Handled(buy_stock(file, r, clock))

SellStep(r) == r.op = "sell" /\ Handled(sell_stock(file, r, clock))

Buy(R) == \E r \in R : BuyStep(r)

Sell(R) == \E r \in R : SellStep(r)

\* The ledger under every order a client can send.  No order reads a
\* price, so the feed is left silent.
Next ==
    \/ GetPortfolio({Silent})
    \/ Buy(AllRequests)
    \/ Sell(AllRequests)

Spec == Init /\ [][Next]_vars

\* the service with clients that send only valid orders
ValidNext ==
    \/ GetPortfolio({Silent})
    \/ Buy(ValidRequests)
    \/ Sell(ValidRequests)

ValidSpec == Init /\ [][ValidNext]_vars

\* the service with its read endpoints, under every answer of the feed
MarketNext ==
    \/ GetPortfolio(Markets)
    \/ GetPerformance(Markets)
    \/ GetTransactions
    \/ Buy(ValidRequests)
    \/ Sell(ValidRequests)

MarketSpec == Init /\ [][MarketNext]_vars

(***************************************************************************)
(* The service on a disk that can fail a write.  save_portfolios opens the *)
(* file with mode 'w', which empties it, and then dumps the dict; an       *)
(* OSError of either call passes through the handler to the framework.     *)
(***************************************************************************)
SaveFailures == {"open", "dump"}

\* the order r served alone, its save_portfolios failing at the call at
ServedFailing(f, r, now, at) ==
    IF JSONDecodeError(f) THEN Crash(f, now)
    ELSE WholeFailing(f, order_body(load_portfolios(f), r, now), at)

\* the order r reaches save_portfolios
ReachesSave(f, r, now) ==
    ~JSONDecodeError(f) /\ order_body(load_portfolios(f), r, now).save

OrderFails ==
    \E r \in ValidRequests, at \in SaveFailures :
        /\ ReachesSave(file, r, clock)
        /\ ServedFailing(file, r, clock, at).now <= MaxReadings
        /\ Handled(ServedFailing(file, r, clock, at))

\* the save of a portfolio that get_portfolio creates fails
CreateFails ==
    \E at \in SaveFailures :
        /\ ~JSONDecodeError(file)
        /\ get_portfolio_body(load_portfolios(file), Silent, clock).save
        /\ Handled(WholeFailing(file,
                                get_portfolio_body(load_portfolios(file),
                                                   Silent, clock),
                                at))

FaultNext ==
    \/ GetPortfolio({Silent})
    \/ GetTransactions
    \/ Buy(ValidRequests)
    \/ Sell(ValidRequests)
    \/ OrderFails
    \/ CreateFails

FaultSpec == Init /\ [][FaultNext]_vars

(***************************************************************************)
(* The service with two clients.  A client sends its own bearer token, and *)
(* verify_token answers {"user_id": "user_1"} whatever it is given: every  *)
(* handler works on portfolios["user_1"].  own follows the file that the   *)
(* requests of one client, served in the same order and at the same clock  *)
(* without those of the other, would have left.                            *)
(***************************************************************************)
Clients == {"alice", "bob"}
Observed == "alice"

\* a request of client c: result is what the handler does to the file,
\* alone what it does to the file of the observed client's requests alone
ClientServed(c, result, alone) ==
    /\ Replied(result)
    /\ TxnCount(alone.file) <= MaxTxns
    /\ own' = IF c = Observed THEN alone.file ELSE own
    /\ market' = market

ClientGetPortfolio ==
    \E c \in Clients :
        ClientServed(c, get_portfolio(file, Silent, clock),
                     get_portfolio(own, Silent, clock))

ClientOrder ==
    \E c \in Clients, r \in ValidRequests :
        ClientServed(c, Served(file, r, clock), Served(own, r, clock))

ClientNext ==
    \/ ClientGetPortfolio
    \/ ClientOrder

ClientSpec == Init /\ [][ClientNext]_vars

(***************************************************************************)
(* Concurrent service.  The handlers are plain def functions, which the    *)
(* framework runs on a pool of worker threads; nothing in main.py locks    *)
(* the file.  Between its load_portfolios and its save_portfolios a        *)
(* handler works on its own dict, so a handler is two steps: the load and  *)
(* the rest.  Each worker serves one order, after any number of requests   *)
(* served alone.                                                           *)
(***************************************************************************)
Running == {t \in Threads : pc[t] # "done"}

Load(t, r) ==
    /\ pc[t] = "idle"
    /\ TxnCount(file) + Cardinality(Running) <= MaxTxns
    /\ pc' = [pc EXCEPT ![t] = "loaded"]
    /\ local' = [local EXCEPT ![t] = load_portfolios(file)]
    /\ treq' = [treq EXCEPT ![t] = r]
    /\ base' = IF Quiet THEN [file |-> file, clock |-> clock] ELSE base
    /\ UNCHANGED <<file, clock, resp, tresp, market, own>>

Finish(t) ==
    /\ pc[t] = "loaded"
    /\ LET out == order_body(local[t], treq[t], clock)
       IN  /\ file' = FileAfter(file, out)
           /\ clock' = out.now
           /\ tresp' = [tresp EXCEPT ![t] = out.resp]
    /\ pc' = [pc EXCEPT ![t] = "done"]
    /\ UNCHANGED <<resp, local, treq, base, market, own>>

Begin == \E t \in Threads, r \in ValidRequests : Load(t, r)

End == \E t \in Threads : Finish(t)

ConcNext ==
    \/ GetPortfolio({Silent})
    \/ Buy(ValidRequests)
    \/ Sell(ValidRequests)
    \/ Begin
    \/ End

ConcSpec == Init /\ [][ConcNext]_vars

(***************************************************************************)
(* What the claims read of a state.                                        *)
(***************************************************************************)
Cash(f) == Stored(f).cash
Positions(f) == Stored(f).positions
Transactions(f) == Stored(f).transactions

\* the positions a portfolio holds for a ticker
Holdings(f, ticker) ==
    {i \in 1..Len(Positions(f)) : Positions(f)[i].ticker = ticker}

Accepted(response) == response.status = 200 /\ response.transactionId # ""

InsufficientFundsError == HTTPException(400, "Insufficient funds")
PositionNotFoundError == HTTPException(404, "Position not found")
InsufficientSharesError == HTTPException(400, "Insufficient shares")

Rejections ==
    {InsufficientFundsError, PositionNotFoundError, InsufficientSharesError}

(***************************************************************************)
(* C1.  From a fresh portfolio, any sequence of accepted buys and sells    *)
(* with quantity > 0 and price >= 0 leaves cash >= 0.                      *)
(***************************************************************************)
C1_CashNonNegative == HasPortfolio(file) => Cash(file) >= 0

\* an accepted order has spent the whole balance
C1_Witness ==
    /\ HasPortfolio(file)
    /\ Accepted(resp)
    /\ Cash(file) = 0
    /\ Len(Transactions(file)) >= 2

(***************************************************************************)
(* C2.  A rejected buy or sell leaves the stored portfolio unchanged: a    *)
(* buy with cash < quantity * price is rejected as insufficient funds, a   *)
(* sell of a ticker with no position as position not found, a sell of more *)
(* than is held as insufficient shares; the file is as before each time,   *)
(* and each of the three responses is returned in its own case only.       *)
(***************************************************************************)
C2_FundsCase(r) ==
    r.op = "buy" /\ Cash(file) < r.quantity * r.price

C2_NoPositionCase(r) ==
    r.op = "sell" /\ Holdings(file, r.ticker) = {}

C2_SharesCase(r) ==
    /\ r.op = "sell"
    /\ \E i \in Holdings(file, r.ticker) : Positions(file)[i].quantity < r.quantity

\* what each order would be answered in this state
C2_Cases ==
    HasPortfolio(file) =>
        \A r \in AllRequests :
            LET out == Served(file, r, clock)
            IN  /\ C2_FundsCase(r) <=> out.resp = InsufficientFundsError
                /\ C2_NoPositionCase(r) <=> out.resp = PositionNotFoundError
                /\ C2_SharesCase(r) <=> out.resp = InsufficientSharesError
                /\ out.resp \in Rejections => out.file = file

\* what a step that answers a rejection does
C2_Step == resp' \in Rejections => file' = file

C2_RejectedUnchanged == []C2_Cases /\ [][C2_Step]_vars

\* a sell of more than is held has been rejected on a ledger with history
C2_Witness ==
    /\ resp = InsufficientSharesError
    /\ HasPortfolio(file)
    /\ Len(Transactions(file)) >= 1
    /\ Len(Positions(file)) >= 1

(***************************************************************************)
(* C3.  Two concurrent orders on one portfolio are serialized: when both   *)
(* are done the file is what serving them one after the other, in one of   *)
(* the two orders, leaves, with the responses of that order; two accepted  *)
(* orders get different transaction ids; cash is >= 0.                     *)
(***************************************************************************)
AllDone == \A t \in Threads : pc[t] = "done"

C3_SerialRun(a, b) ==
    LET first == Served(base.file, treq[a], base.clock)
        second == Served(first.file, treq[b], first.now)
    IN  /\ file = second.file
        /\ tresp[a] = first.resp
        /\ tresp[b] = second.resp

C3_Serialized ==
    AllDone =>
        /\ C3_SerialRun(1, 2) \/ C3_SerialRun(2, 1)
        /\ Accepted(tresp[1]) /\ Accepted(tresp[2]) =>
               tresp[1].transactionId # tresp[2].transactionId
        /\ HasPortfolio(file) => Cash(file) >= 0

(***************************************************************************)
(* C4.  An order with quantity <= 0 or price < 0 is rejected before any    *)
(* mutation: the step that serves it leaves the file as it was and does    *)
(* not answer with a transaction id.                                       *)
(***************************************************************************)
C4_Step ==
    \A r \in InvalidRequests :
        BuyStep(r) \/ SellStep(r) => file' = file /\ ~Accepted(resp')

C4_InvalidRejected == [][C4_Step]_vars

(***************************************************************************)
(* C5.  Transaction ids: the k-th transaction of the log is txn_k, so ids  *)
(* are unique and increasing; an accepted order appends one transaction    *)
(* and is answered its id, 1 + the number logged before; any other         *)
(* response leaves the length of the log alone.                            *)
(***************************************************************************)
C5_Log ==
    HasPortfolio(file) =>
        /\ \A k \in 1..Len(Transactions(file)) :
              Transactions(file)[k].id = "txn_" \o ToString(k)
        /\ \A j, k \in 1..Len(Transactions(file)) :
              j # k => Transactions(file)[j].id # Transactions(file)[k].id

C5_Step ==
    IF Accepted(resp')
    THEN /\ TxnCount(file') = TxnCount(file) + 1
         /\ resp'.transactionId = "txn_" \o ToString(TxnCount(file) + 1)
         /\ Transactions(file')[TxnCount(file')].id = resp'.transactionId
    ELSE TxnCount(file') = TxnCount(file)

C5_TransactionIds == []C5_Log /\ [][C5_Step]_vars

\* the third accepted order, after buys and sells, is answered txn_3
C5_Witness ==
    /\ HasPortfolio(file)
    /\ resp.transactionId = "txn_3"
    /\ Len(Transactions(file)) = 3
    /\ \E j, k \in 1..3 : /\ Transactions(file)[j].type = "buy"
                           /\ Transactions(file)[k].type = "sell"

(***************************************************************************)
(* C6.  A portfolio holds at most one position per ticker.                 *)
(***************************************************************************)
C6_UniqueTickers ==
    HasPortfolio(file) =>
        \A i, j \in 1..Len(Positions(file)) :
            Positions(file)[i].ticker = Positions(file)[j].ticker => i = j

\* a ticker was bought, sold out, and bought again
C6_Witness ==
    /\ HasPortfolio(file)
    /\ Len(Transactions(file)) = 3
    /\ \E t \in Tickers :
          /\ \A k \in 1..3 : Transactions(file)[k].ticker = t
          /\ Transactions(file)[1].type = "buy"
          /\ Transactions(file)[2].type = "sell"
          /\ Transactions(file)[2].quantity = Transactions(file)[1].quantity
          /\ Transactions(file)[1].quantity > 0
          /\ Transactions(file)[3].type = "buy"
          /\ Cardinality(Holdings(file, t)) = 1

(***************************************************************************)
(* C7.  Every position of a portfolio has quantity > 0.                    *)
(***************************************************************************)
C7_PositiveQuantities ==
    HasPortfolio(file) =>
        \A i \in 1..Len(Positions(file)) : Positions(file)[i].quantity > 0

(***************************************************************************)
(* C8.  The checks are non-strict at equality: a buy whose cost equals the *)
(* cash is accepted and leaves cash 0; a sell of exactly the held quantity *)
(* is accepted and removes the position.                                   *)
(***************************************************************************)
C8_BuyAll(r) ==
    /\ r.op = "buy"
    /\ r.quantity * r.price = Cash(file)

C8_SellAll(r) ==
    /\ r.op = "sell"
    /\ \E i \in Holdings(file, r.ticker) : Positions(file)[i].quantity = r.quantity

C8_Step ==
    HasPortfolio(file) =>
        \A r \in ValidRequests :
            /\ C8_BuyAll(r) /\ BuyStep(r) =>
                   Accepted(resp') /\ Cash(file') = 0
            /\ C8_SellAll(r) /\ SellStep(r) =>
                   Accepted(resp') /\ Holdings(file', r.ticker) = {}

C8_NonStrictAtEquality == [][C8_Step]_vars

(***************************************************************************)
(* C9.  An accepted buy of q at p sets the cost basis by the weighted      *)
(* average: a held position (oldQty, oldAvg) becomes oldQty + q at         *)
(* (oldQty * oldAvg + q * p) / (oldQty + q); with no position held, a new  *)
(* one of quantity q at cost basis p is created.                           *)
(***************************************************************************)
\* the fraction x is n / d
IsFraction(x, n, d) == x.num * d = x.den * n

C9_Bought(r, after) ==
    LET old == Holdings(file, r.ticker)
        new == {i \in 1..Len(after) : after[i].ticker = r.ticker}
    IN  IF old = {}
        THEN \E i \in new :
                /\ new = {i}
                /\ after[i].quantity = r.quantity
                /\ IsFraction(after[i].avgCostBasis, r.price, 1)
        ELSE \A i \in old :
                LET was == Positions(file)[i]
                IN  /\ i \in new
                    /\ after[i].quantity = was.quantity + r.quantity
                    /\ IsFraction(after[i].avgCostBasis,
                                  was.quantity * was.avgCostBasis.num
                                      + r.quantity * r.price * was.avgCostBasis.den,
                                  (was.quantity + r.quantity) * was.avgCostBasis.den)

C9_WeightedAverage ==
    HasPortfolio(file) =>
        \A r \in AllRequests :
            LET out == Served(file, r, clock)
            IN  r.op = "buy" /\ Accepted(out.resp) =>
                    C9_Bought(r, Positions(out.file))

\* 2 bought at 50000 and 1 at 0 are held at 100000 / 3
C9_Witness ==
    /\ HasPortfolio(file)
    /\ resp.detail = "Stock purchased successfully"
    /\ \E i \in 1..Len(Positions(file)) :
          /\ Positions(file)[i].quantity = 3
          /\ Positions(file)[i].avgCostBasis = [num |-> 100000, den |-> 3]

(***************************************************************************)
(* C10.  An accepted sell never changes a cost basis: a sell of less than  *)
(* is held leaves the position with the held quantity less the sold one    *)
(* and its cost basis, and every other position as it was, at any price.   *)
(***************************************************************************)
C10_Sold(r, after) ==
    /\ \A j \in 1..Len(after) :
          \E i \in Holdings(file, after[j].ticker) :
              after[j].avgCostBasis = Positions(file)[i].avgCostBasis
    /\ \A i \in Holdings(file, r.ticker) :
          r.quantity < Positions(file)[i].quantity =>
              /\ Len(after) = Len(Positions(file))
              /\ after[i] = [Positions(file)[i] EXCEPT !.quantity = @ - r.quantity]
              /\ \A j \in 1..Len(after) : j # i => after[j] = Positions(file)[j]

C10_SellKeepsCostBasis ==
    HasPortfolio(file) =>
        \A r \in AllRequests :
            LET out == Served(file, r, clock)
            IN  r.op = "sell" /\ Accepted(out.resp) =>
                    C10_Sold(r, Positions(out.file))

\* part of a position was sold at a price that is not its cost basis, with
\* another position held
C10_Witness ==
    /\ HasPortfolio(file)
    /\ resp.detail = "Stock sold successfully"
    /\ Len(Positions(file)) = 2
    /\ LET sale == Transactions(file)[Len(Transactions(file))]
       IN  \E i \in Holdings(file, sale.ticker) :
               /\ Positions(file)[i].quantity = 1
               /\ ~IsFraction(Positions(file)[i].avgCostBasis, sale.price, 1)

(***************************************************************************)
(* C11.  Valuation never changes the stored ledger: GET /api/portfolio on  *)
(* an existing portfolio and GET /api/portfolio/performance leave the file *)
(* as it was, whatever the feed answers, and the stored portfolio and its  *)
(* positions hold the ledger fields only: no currentPrice, marketValue,    *)
(* unrealizedPL, totalValue or totalPL is stored for a later request to    *)
(* read.                                                                   *)
(***************************************************************************)
LedgerFields == {"userId", "cash", "positions", "transactions"}
PositionFields == {"ticker", "quantity", "avgCostBasis", "addedAt"}

\* the response carries a valued portfolio
IsValuation(response) ==
    response.status = 200 /\ "totalValue" \in DOMAIN response.body

\* the response carries a performance report
IsPerformance(response) ==
    response.status = 200 /\ "currentValue" \in DOMAIN response.body

C11_Stored ==
    HasPortfolio(file) =>
        /\ DOMAIN Stored(file) = LedgerFields
        /\ \A i \in 1..Len(Positions(file)) :
              DOMAIN Positions(file)[i] = PositionFields

\* a step that answers with a valuation or a report of a stored portfolio
C11_Step ==
    HasPortfolio(file) /\ (IsValuation(resp') \/ IsPerformance(resp')) =>
        file' = file

C11_ValuationReadOnly == []C11_Stored /\ [][C11_Step]_vars

\* a held position was valued at a price of the feed, and the file holds
\* the position without the valuation
C11_Witness ==
    /\ HasPortfolio(file)
    /\ IsValuation(resp)
    /\ Len(Positions(file)) >= 1
    /\ Len(resp.body.positions) = Len(Positions(file))
    /\ resp.body.positions[1].marketValue > 0
    /\ DOMAIN Positions(file)[1] = PositionFields

(***************************************************************************)
(* C12.  When the feed has no data for a ticker or raises, the valuation   *)
(* prices that position at 0 and still answers in full: no read is         *)
(* answered 500, a valuation holds every position, each other position is  *)
(* valued at the close the feed gives for it, and the whole answer is the  *)
(* one a feed quoting 0 for the missing tickers would give.                *)
(***************************************************************************)
Unavailable(m, ticker) == m[ticker].kind \in {"empty", "error"}

\* the feed m with a close of 0 where it has nothing
Zeroed(m) ==
    [t \in Tickers |->
        IF Unavailable(m, t) THEN [kind |-> "data", close |-> 0] ELSE m[t]]

C12_Positions(m, valued) ==
    /\ Len(valued) = Len(Positions(file))
    /\ \A i \in 1..Len(valued) :
          LET held == Positions(file)[i]
          IN  /\ valued[i].ticker = held.ticker
              /\ valued[i].quantity = held.quantity
              /\ Unavailable(m, held.ticker) =>
                     valued[i].currentPrice = 0 /\ valued[i].marketValue = 0
              /\ ~Unavailable(m, held.ticker) =>
                     /\ valued[i].currentPrice = m[held.ticker].close
                     /\ valued[i].marketValue =
                            held.quantity * m[held.ticker].close

\* market is the feed as the last valuation found it, and a read leaves
\* file and clock as they were: resp is the answer to a read of this state
C12_DegradeToZero ==
    /\ resp.status # 500
    /\ IsValuation(resp) =>
           /\ C12_Positions(market, resp.body.positions)
           /\ resp = get_portfolio(file, Zeroed(market), clock).resp
    /\ IsPerformance(resp) =>
           resp = get_performance(file, Zeroed(market), clock).resp

\* two positions were valued while the feed raised for one ticker and gave
\* a close for the other
C12_Witness ==
    /\ HasPortfolio(file)
    /\ IsValuation(resp)
    /\ Len(resp.body.positions) = 2
    /\ \E i, j \in 1..2 :
          /\ market[resp.body.positions[i].ticker] = FeedError
          /\ resp.body.positions[i].currentPrice = 0
          /\ market[resp.body.positions[j].ticker].kind = "data"
          /\ resp.body.positions[j].currentPrice > 0
          /\ resp.body.totalValue =
                 Cash(file) + resp.body.positions[j].marketValue

(***************************************************************************)
(* C13.  A portfolio is created by GET /api/portfolio only, with cash      *)
(* 100000, no positions and no transactions.  While there is none, a buy,  *)
(* a sell and the performance report are answered 404 Portfolio not found, *)
(* the transaction history is answered 200 with an empty list, and none of *)
(* the four stores anything.                                               *)
(***************************************************************************)
PortfolioNotFoundError == HTTPException(404, "Portfolio not found")

C13_Fresh(portfolio) ==
    /\ portfolio.cash = 100000
    /\ portfolio.positions = <<>>
    /\ portfolio.transactions = <<>>

C13_Absent ==
    ~HasPortfolio(file) =>
        /\ \A r \in AllRequests :
              Served(file, r, clock) =
                  [file |-> file, resp |-> PortfolioNotFoundError, now |-> clock]
        /\ \A m \in Markets :
              /\ get_performance(file, m, clock) =
                     [file |-> file, resp |-> PortfolioNotFoundError,
                      now |-> clock]
              /\ HasPortfolio(get_portfolio(file, m, clock).file)
              /\ C13_Fresh(Stored(get_portfolio(file, m, clock).file))
        /\ get_transactions(file, clock) =
               [file |-> file, resp |-> Ok([transactions |-> <<>>]),
                now |-> clock]

\* the step that stores a portfolio where there was none
C13_Step ==
    ~HasPortfolio(file) /\ HasPortfolio(file') =>
        IsValuation(resp') /\ C13_Fresh(Stored(file'))

C13_CreatedOnlyByGet == []C13_Absent /\ [][C13_Step]_vars

\* a request was answered Portfolio not found and there is still no file
C13_Witness ==
    /\ resp = PortfolioNotFoundError
    /\ ~HasPortfolio(file)
    /\ ~file.exists

(***************************************************************************)
(* C14.  When save_portfolios fails during a buy or a sell, the caller is  *)
(* answered a failure, with no success message and no transaction id, and  *)
(* the stored portfolio is what it was before the order: a later request   *)
(* sees the cash, the positions and the transactions of before.            *)
(***************************************************************************)
C14_SaveFailureLeavesLedger ==
    \A r \in ValidRequests, at \in SaveFailures :
        ReachesSave(file, r, clock) =>
            LET out == ServedFailing(file, r, clock, at)
            IN  /\ out.resp.status >= 500
                /\ ~Accepted(out.resp)
                /\ HasPortfolio(out.file)
                /\ Stored(out.file) = Stored(file)
                /\ get_transactions(out.file, out.now).resp =
                       get_transactions(file, out.now).resp

(***************************************************************************)
(* C15.  The requests of one user never change the portfolio of another:   *)
(* after any run of requests of two users, the portfolio stored for the    *)
(* observed one has the cash, the positions and the transactions that its  *)
(* own requests alone would have left.                                     *)
(***************************************************************************)
C15_UsersIsolated ==
    HasPortfolio(own) =>
        /\ HasPortfolio(file)
        /\ Cash(file) = Cash(own)
        /\ Positions(file) = Positions(own)
        /\ Transactions(file) = Transactions(own)

(***************************************************************************)
(* C16.  The transaction log is append-only: an accepted buy or sell       *)
(* leaves the log as it was plus one transaction at its end, with the      *)
(* ticker, type, quantity and price of the request and fees 0; any other   *)
(* answer leaves the log as it was; no step of the service changes,        *)
(* reorders or drops a transaction that is logged.                         *)
(***************************************************************************)
IsPrefix(s, t) == Len(s) <= Len(t) /\ SubSeq(t, 1, Len(s)) = s

C16_Logged(r, transaction) ==
    /\ transaction.ticker = r.ticker
    /\ transaction.type = r.op
    /\ transaction.quantity = r.quantity
    /\ transaction.price = r.price
    /\ transaction.fees = 0

C16_Cases ==
    HasPortfolio(file) =>
        \A r \in AllRequests :
            LET out == Served(file, r, clock)
                log == Transactions(file)
                after == Transactions(out.file)
            IN  IF Accepted(out.resp)
                THEN /\ Len(after) = Len(log) + 1
                     /\ IsPrefix(log, after)
                     /\ C16_Logged(r, after[Len(after)])
                ELSE after = log

C16_Step ==
    HasPortfolio(file) =>
        /\ HasPortfolio(file')
        /\ IsPrefix(Transactions(file), Transactions(file'))
        /\ Len(Transactions(file')) <= Len(Transactions(file)) + 1
        /\ ~Accepted(resp') => Transactions(file') = Transactions(file)

RECURSIVE SumOver(_, _)
SumOver(F, S) ==
    IF S = {} THEN 0
    ELSE LET i == CHOOSE j \in S : TRUE
         IN  F[i] + SumOver(F, S \ {i})

\* the product of F[i] over the indices i in S
RECURSIVE ProductOver(_, _)
ProductOver(F, S) ==
    IF S = {} THEN 1
    ELSE LET i == CHOOSE j \in S : TRUE
         IN  F[i] * ProductOver(F, S \ {i})

C17_Position(held, valued) ==
    LET q == held.quantity
        n == held.avgCostBasis.num
        d == held.avgCostBasis.den
        mv == q * valued.currentPrice
    IN  /\ valued.marketValue = mv
        /\ IsFraction(valued.unrealizedPL, mv * d - q * n, d)
        /\ IF q * n > 0
           THEN IsFraction(valued.unrealizedPLPercent, (mv * d - q * n) * 100,
                           q * n)
           ELSE valued.unrealizedPLPercent.num = 0

C17_Totals(portfolio, valued) ==
    LET held == portfolio.positions
        all == 1..Len(held)
        D == ProductOver([i \in all |-> held[i].avgCostBasis.den], all)
        \* D times the sum of costBasis
        cost == SumOver([i \in all |->
                            held[i].quantity * held[i].avgCostBasis.num
                                * (D \div held[i].avgCostBasis.den)], all)
        value == portfolio.cash
                     + SumOver([i \in all |->
                                   held[i].quantity
                                       * valued.positions[i].currentPrice], all)
        basis == portfolio.cash * D + cost
    IN  /\ valued.totalValue = value
        /\ IsFraction(valued.totalPL, value * D - basis, D)
        /\ basis > 0 =>
               IsFraction(valued.totalPLPercent, (value * D - basis) * 100,
                          basis)
        /\ basis = 0 => valued.totalPLPercent.num = 0

C17_Valuation ==
    IsValuation(resp) =>
        /\ Len(resp.body.positions) = Len(Positions(file))
        /\ \A i \in 1..Len(Positions(file)) :
              C17_Position(Positions(file)[i], resp.body.positions[i])
        /\ C17_Totals(Stored(file), resp.body)

\* a position bought at 0 and one bought at 50000 were valued at 60000
\* each: the first with nothing to divide by, the second at + 20 per cent
C17_Witness ==
    /\ IsValuation(resp)
    /\ Len(Positions(file)) = 2
    /\ \E i, j \in 1..2 :
          /\ Positions(file)[i].avgCostBasis.num = 0
          /\ resp.body.positions[i].unrealizedPL = Frac(60000, 1)
          /\ resp.body.positions[i].unrealizedPLPercent = Frac(0, 1)
          /\ Positions(file)[j].avgCostBasis = Frac(50000, 1)
          /\ resp.body.positions[j].unrealizedPLPercent = Frac(20, 1)
    /\ resp.body.totalValue = 170000
    /\ resp.body.totalPL = Frac(70000, 1)
    /\ resp.body.totalPLPercent = Frac(70, 1)

(***************************************************************************)
(* C18.  The performance report agrees with the valuation of the same      *)
(* ledger under the same prices: currentValue is the valuation's           *)
(* totalValue, totalPL and totalPLPercent are the valuation's, cash is the *)
(* stored cash, investedValue = currentValue - cash is the sum of the      *)
(* market values of the positions, initialValue is 100000 and totalReturn  *)
(* is (currentValue - 100000) / 100000 * 100.                              *)
(***************************************************************************)
C18_Report(report, valued) ==
    LET all == 1..Len(valued.positions)
    IN  /\ report.initialValue = 100000
        /\ report.currentValue = valued.totalValue
        /\ report.cash = Cash(file)
        /\ report.investedValue = report.currentValue - report.cash
        /\ report.investedValue =
               SumOver([i \in all |-> valued.positions[i].marketValue], all)
        /\ IsFraction(report.totalReturn,
                      (report.currentValue - 100000) * 100, 100000)
        /\ report.totalPL = valued.totalPL
        /\ report.totalPLPercent = valued.totalPLPercent

C18_PerformanceConsistent ==
    IsPerformance(resp) =>
        C18_Report(resp.body, get_portfolio(file, market, clock).resp.body)

\* with 50000 in cash and one share priced 60000 the report is + 10 per cent
C18_Witness ==
    /\ IsPerformance(resp)
    /\ Len(Positions(file)) = 1
    /\ market[Positions(file)[1].ticker].kind = "data"
    /\ resp.body.cash = 50000
    /\ resp.body.currentValue = 110000
    /\ resp.body.investedValue = 60000
    /\ resp.body.totalReturn = Frac(10, 1)

(***************************************************************************)
(* C19.  Cash is derivable from the log: in every state reached by         *)
(* requests served one at a time, cash = 100000 - the sum of quantity *    *)
(* price over the logged buys + the sum of quantity * price over the       *)
(* logged sells.                                                           *)
(***************************************************************************)
\* the transactions of the log with a type, and a ticker among T
Logged(f, type, T) ==
    {k \in 1..Len(Transactions(f)) :
        Transactions(f)[k].type = type /\ Transactions(f)[k].ticker \in T}

\* quantity * price of each logged transaction
Amounts(f) ==
    [k \in 1..Len(Transactions(f)) |->
        Transactions(f)[k].quantity * Transactions(f)[k].price]

C19_CashFromLog ==
    HasPortfolio(file) =>
        Cash(file) = 100000 - SumOver(Amounts(file), Logged(file, "buy", Tickers))
                            + SumOver(Amounts(file), Logged(file, "sell", Tickers))

\* shares were bought and sold at prices above 0 and some cash was spent
C19_Witness ==
    /\ HasPortfolio(file)
    /\ Len(Transactions(file)) = 3
    /\ \E k \in Logged(file, "buy", Tickers) : Amounts(file)[k] = 100000
    /\ \E k \in Logged(file, "sell", Tickers) : Amounts(file)[k] = 50000
    /\ Cash(file) = 50000

(***************************************************************************)
(* C20.  Positions are consistent with the log: in every state reached by  *)
(* requests served one at a time, for every ticker the quantity held, 0    *)
(* when there is no position for it, is the sum of the quantities of its   *)
(* logged buys less the sum of the quantities of its logged sells.         *)
(***************************************************************************)
\* the quantity of each logged transaction
Quantities(f) ==
    [k \in 1..Len(Transactions(f)) |-> Transactions(f)[k].quantity]

\* the quantity a portfolio holds of a ticker
Held(f, ticker) ==
    SumOver([i \in 1..Len(Positions(f)) |-> Positions(f)[i].quantity],
            Holdings(f, ticker))

C20_PositionsFromLog ==
    HasPortfolio(file) =>
        \A t \in Tickers :
            Held(file, t) = SumOver(Quantities(file), Logged(file, "buy", {t}))
                                - SumOver(Quantities(file), Logged(file, "sell", {t}))

\* of two shares bought one was sold, and a share of the other ticker is
\* held too
C20_Witness ==
    /\ HasPortfolio(file)
    /\ Len(Transactions(file)) = 3
    /\ Len(Positions(file)) = 2
    /\ \E t \in Tickers :
          /\ Held(file, t) = 1
          /\ \E k \in Logged(file, "buy", {t}) : Quantities(file)[k] = 2
          /\ Logged(file, "sell", {t}) # {}

====
